---- MODULE Spec2Model ----
(***************************************************************************)
(* Model of the RMV appointment sniper: browse.py (traverse the site,      *)
(* extract, normalize, write the snapshot, launch alert.py) and alert.py   *)
(* (match a stored snapshot against the time window and the blacklist).    *)
(*                                                                         *)
(* Representation of the texts the code parses:                            *)
(*   ISO date "YYYY-MM-DD"              <<y, m, d>>                        *)
(*   full date "Apr 10, 2025"           <<"Apr", 10, 2025>>                *)
(*   machine time "04/10/2025 09:15:00 AM"                                 *)
(*                                      [attr, h, mi, ap]  (attr = FALSE   *)
(*                                      is a missing data-datetime, None)  *)
(*   canonical time "HH:MM"             the number HHMM (string order of   *)
(*                                      zero padded HH:MM = number order)  *)
(*   a Python dict                      a sequence of [key, value] records *)
(*                                      in insertion order, keys distinct  *)
(***************************************************************************)
EXTENDS Integers, Sequences, FiniteSets, TLC

----------------------------------------------------------------------------
(* Bounds *)

\* result pages visited per location (the pagination loop is "while True")
MaxPages == 2

\* alert.py processes started by the operator after the run
MaxEvals == 2

\* operator edits of the configuration files after the run
MaxEdits == 1

----------------------------------------------------------------------------
(* Dates and times: datetime.strptime / strftime *)

IsLeap(y) == (y % 4 = 0 /\ y % 100 # 0) \/ y % 400 = 0

DaysInMonth(y, m) ==
  IF m = 2 THEN (IF IsLeap(y) THEN 29 ELSE 28)
  ELSE IF m \in {4, 6, 9, 11} THEN 30 ELSE 31

\* datetime.strptime(s, '%Y-%m-%d') succeeds (no ValueError)
ValidIso(s) ==
  /\ s[1] \in 1..9999
  /\ s[2] \in 1..12
  /\ s[3] \in 1..DaysInMonth(s[1], s[2])

\* a < b, a <= b on datetime values of parsed ISO dates
DateLt(a, b) ==
  \/ a[1] < b[1]
  \/ a[1] = b[1] /\ a[2] < b[2]
  \/ a[1] = b[1] /\ a[2] = b[2] /\ a[3] < b[3]

DateLe(a, b) == a = b \/ DateLt(a, b)

\* %b : month abbreviation to month number, 0 when it is no month
MonthNum(b) ==
  CASE b = "Jan" -> 1 [] b = "Feb" -> 2 [] b = "Mar" -> 3 [] b = "Apr" -> 4
    [] b = "May" -> 5 [] b = "Jun" -> 6 [] b = "Jul" -> 7 [] b = "Aug" -> 8
    [] b = "Sep" -> 9 [] b = "Oct" -> 10 [] b = "Nov" -> 11 [] b = "Dec" -> 12
    [] OTHER -> 0

\* datetime.strptime(full_date, '%b %d, %Y') succeeds
ValidFullDate(fd) == ValidIso(<<fd[3], MonthNum(fd[1]), fd[2]>>)

\* datetime.strptime(full_date, '%b %d, %Y').strftime('%Y-%m-%d')
FullDateToIso(fd) == <<fd[3], MonthNum(fd[1]), fd[2]>>

\* datetime.strptime(t, '%m/%d/%Y %I:%M:%S %p') does not raise ValueError
\* (t is a string here; None raises TypeError, see transform_data)
ValidMachineTime(t) ==
  /\ t.h \in 1..12
  /\ t.mi \in 0..59
  /\ t.ap \in {"AM", "PM"}

\* the 12 hour clock read with AM and PM exchanged
MachineTimeToHHMM_SwapAmPm(t) ==
  ((t.h % 12) + (IF t.ap = "AM" THEN 12 ELSE 0)) * 100 + t.mi

\* ....strftime('%H:%M') as the number HHMM
MachineTimeToHHMM(t) ==
  ((t.h % 12) + (IF t.ap = "PM" THEN 12 ELSE 0)) * 100 + t.mi

----------------------------------------------------------------------------
(* Python built-ins on lists *)

RECURSIVE Insert(_, _)
Insert(x, s) ==
  IF s = << >> THEN <<x>>
  ELSE IF x < Head(s) THEN <<x>> \o s
  ELSE <<Head(s)>> \o Insert(x, Tail(s))

\* sorted(times): ascending, duplicates kept
RECURSIVE sorted(_)
sorted(s) == IF s = << >> THEN << >> ELSE Insert(Head(s), sorted(Tail(s)))

Range(s) == {s[k] : k \in 1..Len(s)}

IsSorted(s) == \A k \in 1..(Len(s) - 1) : s[k] <= s[k + 1]

NoDuplicates(s) == \A j, k \in 1..Len(s) : j # k => s[j] # s[k]

\* position of key k in dict d, 0 when absent
RECURSIVE DictIndex(_, _)
DictIndex(d, k) ==
  IF d = << >> THEN 0
  ELSE IF d[Len(d)].key = k THEN Len(d)
  ELSE DictIndex(SubSeq(d, 1, Len(d) - 1), k)

DictHas(d, k) == DictIndex(d, k) # 0

DictGet(d, k) == d[DictIndex(d, k)].value

\* d[k] = v : overwrite in place, or append a new key
DictSet(d, k, v) ==
  IF DictHas(d, k)
  THEN [d EXCEPT ![DictIndex(d, k)] = [key |-> k, value |-> v]]
  ELSE Append(d, [key |-> k, value |-> v])

DictKeys(d) == {d[k].key : k \in 1..Len(d)}

----------------------------------------------------------------------------
(* Configuration files *)

DefaultStart == <<2025, 3, 24>>
DefaultEnd == <<2025, 4, 24>>

\* load_time_window whose except branch returns the default range without
\* printing the error
load_time_window_Silent(wf) ==
  IF /\ wf.state = "ok"
     /\ ValidIso(wf.start_date)
     /\ ValidIso(wf.end_date)
  THEN [start |-> wf.start_date, end |-> wf.end_date, warned |-> FALSE]
  ELSE [start |-> DefaultStart, end |-> DefaultEnd, warned |-> FALSE]

\* load_time_window: [start, end, warned]; warned = the "Error loading time
\* window" line was printed and the default range returned
load_time_window(wf) ==
  IF /\ wf.state = "ok"
     /\ ValidIso(wf.start_date)
     /\ ValidIso(wf.end_date)
  THEN [start |-> wf.start_date, end |-> wf.end_date, warned |-> FALSE]
  ELSE [start |-> DefaultStart, end |-> DefaultEnd, warned |-> TRUE]

\* is_alert_date without the test against end_date
is_alert_date_NoEnd(date_str, wf) ==
  IF ~ValidIso(date_str) THEN FALSE
  ELSE LET w == load_time_window(wf)
       IN DateLe(w.start, date_str)

\* is_alert_date with the end of the window included (date <= end_date)
is_alert_date_EndInclusive(date_str, wf) ==
  IF ~ValidIso(date_str) THEN FALSE
  ELSE LET w == load_time_window(wf)
       IN DateLe(w.start, date_str) /\ DateLe(date_str, w.end)

\* is_alert_date(date_str) with time_window.json = wf
is_alert_date(date_str, wf) ==
  IF ~ValidIso(date_str) THEN FALSE
  ELSE LET w == load_time_window(wf)
       IN DateLe(w.start, date_str) /\ DateLt(date_str, w.end)

\* number of load_time_window calls one is_alert_date(date_str) makes
LoadsOf(date_str) == IF ValidIso(date_str) THEN 1 ELSE 0

----------------------------------------------------------------------------
(* browse.py: transform_data *)

RECURSIVE Flatten(_)
Flatten(ss) == IF ss = << >> THEN << >> ELSE Head(ss) \o Flatten(Tail(ss))

\* the slots of a date_data in the order of the two inner loops:
\* for time_group in date_data['time_groups']: for time_data in ...['times']
SlotsOf(date_data) ==
  Flatten([g \in 1..Len(date_data.time_groups) |-> date_data.time_groups[g].times])

\* the inner try of transform_data over the slots of one date: a slot is
\* appended as HH:MM, skipped on ValueError (malformed text), and
\* strptime(None, ...) raises TypeError, which "except ValueError" lets
\* through
RECURSIVE ParseSlots(_)
ParseSlots(slots) ==
  IF slots = << >> THEN [raised |-> FALSE, times |-> << >>]
  ELSE LET t == Head(slots).datetime
       IN IF ~t.attr THEN [raised |-> TRUE, times |-> << >>]
          ELSE LET r == ParseSlots(Tail(slots))
               IN [raised |-> r.raised,
                   times |-> IF ValidMachineTime(t)
                             THEN <<MachineTimeToHHMM(t)>> \o r.times
                             ELSE r.times]

\* the loop "for date_data in page['dates']" over all pages of a location;
\* acc is transformed[location]
RECURSIVE TransformDates(_, _)
TransformDates(dateList, acc) ==
  IF dateList = << >> THEN [raised |-> FALSE, value |-> acc]
  ELSE LET dd == Head(dateList)
       IN IF ~ValidFullDate(dd.full_date)
          THEN TransformDates(Tail(dateList), acc)
          ELSE LET iso == FullDateToIso(dd.full_date)
                   acc1 == IF DictHas(acc, iso) THEN acc
                           ELSE DictSet(acc, iso, << >>)
                   r == ParseSlots(SlotsOf(dd))
               IN IF r.raised THEN [raised |-> TRUE, value |-> acc1]
                  ELSE TransformDates(Tail(dateList),
                         DictSet(acc1, iso, DictGet(acc1, iso) \o r.times))

\* the dates of all pages of a location, in page order
DatesOfPages(pages) == Flatten([p \in 1..Len(pages) |-> pages[p].dates])

RECURSIVE TransformLocations(_, _)
TransformLocations(locs, acc) ==
  IF locs = << >> THEN [raised |-> FALSE, value |-> acc]
  ELSE LET r == TransformDates(DatesOfPages(Head(locs).value.pages), << >>)
       IN IF r.raised THEN [raised |-> TRUE, value |-> acc]
          ELSE TransformLocations(Tail(locs),
                                  DictSet(acc, Head(locs).key, r.value))

\* transform_data(all_data): [raised, value]; raised = an exception left
\* the function (no snapshot is returned), value = the snapshot
transform_data(all_data) == TransformLocations(all_data.locations, << >>)

----------------------------------------------------------------------------
(* alert.py: analyze_appointments *)

\* the loop "for date, times in dates.items()" for one location
RECURSIVE AlertsOfDates(_, _, _)
AlertsOfDates(location, dates, wf) ==
  IF dates = << >> THEN << >>
  ELSE LET rest == AlertsOfDates(location, Tail(dates), wf)
       IN IF is_alert_date(Head(dates).key, wf)
          THEN <<[location |-> location,
                  date |-> Head(dates).key,
                  times |-> sorted(Head(dates).value)]>> \o rest
          ELSE rest

\* the location loop without its "if location in blacklist: continue"
RECURSIVE AlertsOf_NoBlacklist(_, _, _)
AlertsOf_NoBlacklist(data, blacklist, wf) ==
  IF data = << >> THEN << >>
  ELSE AlertsOfDates(Head(data).key, Head(data).value, wf)
         \o AlertsOf_NoBlacklist(Tail(data), blacklist, wf)

\* the loop "for location, dates in data.items()": the alerts list
RECURSIVE AlertsOf(_, _, _)
AlertsOf(data, blacklist, wf) ==
  IF data = << >> THEN << >>
  ELSE LET rest == AlertsOf(Tail(data), blacklist, wf)
       IN IF Head(data).key \in blacklist THEN rest
          ELSE AlertsOfDates(Head(data).key, Head(data).value, wf) \o rest

\* match_found: some appended alert had a non-empty times list
MatchFound(alerts) == \E k \in 1..Len(alerts) : alerts[k].times # << >>

\* the alerts whose location was not seen earlier in the list
\* (locations_printed / unique_locations)
FirstPerLocation(alerts) ==
  LET keep(k) == \A j \in 1..(k - 1) : alerts[j].location # alerts[k].location
      RECURSIVE pick(_)
      pick(k) == IF k > Len(alerts) THEN << >>
                 ELSE IF keep(k) THEN <<alerts[k]>> \o pick(k + 1)
                 ELSE pick(k + 1)
  IN pick(1)

\* the entries printed under "=== ALERT: Available Appointments Found ==="
SummaryOf(alerts) == FirstPerLocation(alerts)

\* the viewer launches: firefox <url>, then firefox <alert endpoint>?alertText=
\* <location> per distinct location of alerts
LaunchesOf(alerts) ==
  IF MatchFound(alerts)
  THEN LET f == FirstPerLocation(alerts)
       IN <<[kind |-> "url", location |-> ""]>> \o
          [k \in 1..Len(f) |-> [kind |-> "alert", location |-> f[k].location]]
  ELSE << >>

\* how the viewer behaves in one alert.py process: it works, firefox is not
\* in PATH, the launch for the first alert endpoint exits non-zero
Viewers == {"ok", "missing", "alert_fails"}

\* what subprocess.run(['firefox', ...], check=True) does for the k-th launch
LaunchOutcome(viewer, k) ==
  IF viewer = "missing" THEN "FileNotFoundError"
  ELSE IF viewer = "alert_fails" /\ k = 2 THEN "CalledProcessError"
  ELSE "ok"

\* the launches when an exception of subprocess.run is not caught: the
\* process ends at the first failing launch, with a traceback
ViewerRun_FailureFatal(attempts, viewer) ==
  LET failing == {k \in 1..Len(attempts) : LaunchOutcome(viewer, k) # "ok"}
      n == IF failing = {} THEN Len(attempts)
           ELSE CHOOSE k \in failing : \A j \in failing : k <= j
  IN [made |-> SubSeq(attempts, 1, n),
      results |-> [k \in 1..n |-> LaunchOutcome(viewer, k)],
      exit |-> IF failing = {} THEN 0 ELSE 1]

\* the two try blocks around subprocess.run: every launch of attempts is
\* made; CalledProcessError prints "Error launching Firefox",
\* FileNotFoundError prints "Firefox not found in PATH"; [made, results, exit]
ViewerRun(attempts, viewer) ==
  [made |-> attempts,
   results |-> [k \in 1..Len(attempts) |-> LaunchOutcome(viewer, k)],
   exit |-> 0]

\* number of load_time_window calls (one per is_alert_date on a parsable date
\* of a location that is not blacklisted)
RECURSIVE LoadsOfData(_, _)
LoadsOfData(data, blacklist) ==
  IF data = << >> THEN 0
  ELSE LoadsOfData(Tail(data), blacklist) +
       (IF Head(data).key \in blacklist THEN 0
        ELSE Cardinality({k \in 1..Len(Head(data).value) :
                            ValidIso(Head(data).value[k].key)}))

----------------------------------------------------------------------------
(* browse.py: parse_date_time_group *)

\* the loop "for col_idx in range(column_count)"; gd is the function local
\* group_data ([bound, value]), which the code assigns only inside the group
\* loop and appends once after it
RECURSIVE ParseColumns(_, _, _, _)
ParseColumns(cols, wf, gd, dates) ==
  IF cols = << >> THEN [raised |-> FALSE, dates |-> dates]
  ELSE LET c == Head(cols)
       IN IF ~c.label_match \/ ~ValidFullDate(c.full_date)
          THEN ParseColumns(Tail(cols), wf, gd, dates)
          ELSE IF is_alert_date(FullDateToIso(c.full_date), wf)
          THEN LET gd1 == IF c.groups = << >> THEN gd
                          ELSE [bound |-> TRUE,
                                value |-> [times |-> c.groups[Len(c.groups)].times]]
               IN IF ~gd1.bound
                  THEN [raised |-> TRUE, dates |-> dates]
                  ELSE ParseColumns(Tail(cols), wf, gd1,
                         Append(dates, [full_date |-> c.full_date,
                                        time_groups |-> <<gd1.value>>]))
          ELSE ParseColumns(Tail(cols), wf, gd, dates)

NoGroup == [bound |-> FALSE, value |-> [times |-> << >>]]

\* parse_date_time_group(page, location): [raised, dates]
parse_date_time_group(dom, wf) == ParseColumns(dom, wf, NoGroup, << >>)

\* get_page_data(page, location, max_retries=3)
max_retries == 3

\* a retry loop that makes one more attempt after the third failure
get_page_data_ExtraAttempt(dom, wf, transient) ==
  LET r == parse_date_time_group(dom, wf)
  IN IF transient >= max_retries + 1 \/ r.raised
     THEN [dates |-> << >>, attempts |-> max_retries + 1,
           sleeps |-> max_retries, ok |-> FALSE]
     ELSE [dates |-> r.dates, attempts |-> transient + 1,
           sleeps |-> transient, ok |-> TRUE]

\* the retry loop of get_page_data when the first `transient` attempts raise
\* for reasons of the browser: [dates, attempts, sleeps, ok].  An attempt
\* that raises is followed by time.sleep(1) unless it was the last one; the
\* try block returns at the first attempt that does not raise (ok), and after
\* the last failed attempt the data gathered so far is returned (its dates
\* are still the empty list).
get_page_data(dom, wf, transient) ==
  LET r == parse_date_time_group(dom, wf)
  IN IF transient >= max_retries \/ r.raised
     THEN [dates |-> << >>, attempts |-> max_retries,
           sleeps |-> max_retries - 1, ok |-> FALSE]
     ELSE [dates |-> r.dates, attempts |-> transient + 1,
           sleeps |-> transient, ok |-> TRUE]

----------------------------------------------------------------------------
(* The site: what the browser shows *)

Locations == {"A", "B"}

T(h, mi, ap) == [datetime |-> [attr |-> TRUE, h |-> h, mi |-> mi, ap |-> ap]]
\* a slot without data-datetime attribute
TNone == [datetime |-> [attr |-> FALSE, h |-> 0, mi |-> 0, ap |-> ""]]
\* a slot whose data-datetime is in 24 hour form, "04/23/2025 13:00:00 PM"
TBad == T(13, 0, "PM")

G(slots) == [times |-> slots]
Col(fd, groups) == [label_match |-> TRUE, full_date |-> fd, groups |-> groups]
\* a column whose aria-label does not match the regular expression
ColNoLabel == [label_match |-> FALSE, full_date |-> <<"", 0, 0>>, groups |-> << >>]

Mar23 == <<"Mar", 23, 2025>>
Mar24 == <<"Mar", 24, 2025>>
Apr23 == <<"Apr", 23, 2025>>
Apr24 == <<"Apr", 24, 2025>>

Site(towns, pagesA, pagesB) ==
  [towns |-> towns, pages |-> [l \in Locations |-> IF l = "A" THEN pagesA ELSE pagesB]]

Sites ==
  { \* one date split over two pages, out of order and overlapping; an empty date
    Site(<<"A", "B">>,
         << <<Col(Apr23, <<G(<<T(9, 0, "AM"), T(10, 30, "AM")>>)>>)>>,
            <<Col(Apr23, <<G(<<T(10, 30, "AM"), T(9, 0, "AM"), T(11, 0, "AM")>>)>>)>> >>,
         << <<Col(Mar24, <<G(<< >>)>>)>> >>),
    \* one location, one date, one time
    Site(<<"A">>,
         << <<Col(Mar24, <<G(<<T(9, 0, "AM")>>)>>)>> >>,
         << >>),
    \* a malformed machine time; the dates around the window's ends
    Site(<<"A", "B">>,
         << <<Col(Apr23, <<G(<<TBad, T(1, 15, "PM"), T(12, 5, "AM")>>)>>)>> >>,
         << <<ColNoLabel,
              Col(Mar23, <<G(<<T(9, 0, "AM")>>)>>),
              Col(Mar24, <<G(<<T(9, 0, "AM")>>)>>)>>,
            <<Col(Apr23, <<G(<<T(9, 0, "AM")>>)>>),
              Col(Apr24, <<G(<<T(9, 0, "AM")>>)>>)>> >>),
    \* a slot without machine time
    Site(<<"A", "B">>,
         << <<Col(Mar24, <<G(<<T(9, 0, "AM")>>)>>)>> >>,
         << <<Col(Apr23, <<G(<<TNone, T(9, 0, "AM")>>)>>)>> >>),
    \* only dates without times
    Site(<<"A", "B">>,
         << <<Col(Mar24, <<G(<< >>)>>), Col(Apr23, <<G(<< >>)>>)>> >>,
         << <<Col(Apr23, <<G(<< >>)>>)>> >>),
    \* columns with two groups and with no group
    Site(<<"A", "B">>,
         << <<Col(Mar24, <<G(<<T(9, 0, "AM")>>), G(<<T(1, 15, "PM")>>)>>),
              Col(Apr23, << >>)>> >>,
         << <<Col(Apr23, << >>)>> >>) }

\* the page shown for a location after page_no - 1 clicks on a next control
\* (a click on the last page leaves it displayed)
DomAt(st, location, n) ==
  LET ps == st.pages[location]
  IN IF ps = << >> THEN << >>
     ELSE IF n <= Len(ps) THEN ps[n] ELSE ps[Len(ps)]

\* contents of time_window.json
WF(state, s, e) == [state |-> state, start_date |-> s, end_date |-> e]

\* the windows a run starts with
InitWindowFiles ==
  { WF("ok", <<2025, 3, 23>>, <<2025, 4, 25>>),
    WF("ok", <<2025, 3, 24>>, <<2025, 4, 24>>),
    WF("nokey", <<2025, 3, 23>>, <<0, 0, 0>>) }

\* the windows the operator leaves behind after an edit: end_date moved
\* earlier, file removed, end_date mistyped
EditedWindowFiles ==
  { WF("ok", <<2025, 3, 24>>, <<2025, 4, 24>>),
    WF("ok", <<2025, 3, 24>>, <<2025, 4, 23>>),
    WF("missing", <<0, 0, 0>>, <<0, 0, 0>>),
    WF("ok", <<2025, 3, 23>>, <<2025, 4, 31>>) }

WindowFiles == InitWindowFiles \cup EditedWindowFiles

----------------------------------------------------------------------------
(* State *)

VARIABLES
  site,              \* what the booking site shows during the run
  url_file,          \* rmv_url.txt is readable
  blacklist_file,    \* blacklist.txt, a set of lines
  whitelist_file,    \* whitelist.txt
  time_window_file,  \* time_window.json
  data_file,         \* data/<timestamp>.json of the run: [exists, data]
  pc,                \* position of browse.py
  outcome,           \* how browse.py ended ("" while it has not)
  exit_code,         \* exit code of browse.py, -1 while it has not ended
  arg_blacklist,     \* args.blacklist ("" when the option is not given)
  blacklist,         \* test_list_buttons: blacklist
  whitelist,         \* test_list_buttons: whitelist
  town_count,        \* test_list_buttons: town_count
  i,                 \* loop index of "for i in range(town_count)", from 1
  all_data,          \* test_list_buttons: all_data
  location_data,     \* test_list_buttons: location_data
  page_no,           \* result page of the location the browser is on
  screen,            \* what the browser page shows: none, selection, location
  sleeps,            \* time.sleep(1) calls of the last get_page_data
  extract_ok,        \* the last get_page_data returned from its try block
  next_controls,     \* what the pagination loop last saw and clicked
  passes,            \* the passes of the location loop so far, in order
  aborted,           \* the except branch could not recover to the main page
  attempts,          \* attempts of the last get_page_data
  alerts,            \* analyze_appointments: alerts, of the last alert.py
  launches,          \* viewer launches of the last alert.py
  launch_results,    \* what each of these launches did
  summary,           \* entries the last alert.py printed under "=== ALERT"
  alert_exit,        \* exit code of the last alert.py, -1 before the first
  loads,             \* load_time_window calls of the last alert.py
  warnings,          \* "Error loading time window" lines of the last alert.py
  eval_window,       \* time_window.json as the last alert.py read it
  eval_blacklist,    \* blacklist.txt as the last alert.py read it
  prev_alerts,       \* alerts of the alert.py before the last
  evals,             \* alert.py processes started by the operator
  edits              \* configuration edits by the operator

vars == <<site, url_file, blacklist_file, whitelist_file, time_window_file,
          data_file, pc, outcome, exit_code, arg_blacklist, blacklist,
          whitelist, town_count, i, all_data, location_data, page_no, screen, attempts,
          sleeps, extract_ok, next_controls, aborted, passes,
          alerts, launches, launch_results, summary, alert_exit, loads,
          warnings, eval_window, eval_blacklist, prev_alerts, evals, edits>>

extractVars == <<attempts, sleeps, extract_ok>>
fileVars == <<url_file, blacklist_file, whitelist_file, time_window_file, data_file>>
browseVars == <<pc, outcome, exit_code, arg_blacklist, blacklist, whitelist, town_count, i,
                all_data, location_data, page_no, screen, extractVars,
                next_controls, aborted, passes>>
alertVars == <<alerts, launches, launch_results, summary, alert_exit, loads,
               warnings, eval_window, eval_blacklist, prev_alerts>>

NoLocation == [location |-> "", pages |-> << >>]

\* one pass of "for i in range(town_count)": the index, the text of the
\* button at that index, whether the button was clicked, and the statement
\* group of the try block that raised: "none", "select" (up to the click and
\* its waits), "page" (get_page_data or the pagination loop), "return" (the
\* page.goto(url) after the location was stored)
Pass(index, location, clicked, error) ==
  [index |-> index, location |-> location, clicked |-> clicked, error |-> error]

\* the pass in progress raises in the statement group `error`
Failed(ps, error) == [ps EXCEPT ![Len(ps)].error = error]

\* nothing seen of the next controls yet
NoControls ==
  [seen |-> FALSE, form_visible |-> FALSE, form_disabled |-> FALSE,
   pagination_visible |-> FALSE, clicked |-> "none"]

\* one pass of the pagination loop: what form_next.is_visible(),
\* form_next.is_disabled() (asked only of a visible button) and
\* pagination_next.is_visible() answered, and the control that was clicked
Seen(form_visible, form_disabled, pagination_visible) ==
  [seen |-> TRUE, form_visible |-> form_visible,
   form_disabled |-> form_visible /\ form_disabled,
   pagination_visible |-> pagination_visible,
   clicked |-> IF ~form_visible /\ ~pagination_visible THEN "none"
               ELSE IF form_visible /\ ~form_disabled THEN "form_next"
               ELSE IF pagination_visible THEN "pagination_next"
               ELSE "none"]

Init ==
  /\ site \in Sites
  /\ url_file \in BOOLEAN
  /\ blacklist_file \in {{}, {"B"}}
  /\ whitelist_file = {"A"}
  /\ time_window_file \in InitWindowFiles
  /\ data_file = [exists |-> FALSE, data |-> << >>]
  /\ pc = "idle"
  /\ outcome = ""
  /\ exit_code = -1
  /\ arg_blacklist = ""
  /\ blacklist = {}
  /\ whitelist = {}
  /\ town_count = 0
  /\ i = 1
  /\ all_data = [locations |-> << >>]
  /\ location_data = NoLocation
  /\ page_no = 0
  /\ screen = "none"
  /\ attempts = 0
  /\ sleeps = 0
  /\ extract_ok = FALSE
  /\ next_controls = NoControls
  /\ aborted = FALSE
  /\ passes = << >>
  /\ alerts = << >>
  /\ launches = << >>
  /\ launch_results = << >>
  /\ summary = << >>
  /\ alert_exit = -1
  /\ loads = 0
  /\ warnings = 0
  /\ eval_window = WF("missing", <<0, 0, 0>>, <<0, 0, 0>>)
  /\ eval_blacklist = {}
  /\ prev_alerts = << >>
  /\ evals = 0
  /\ edits = 0

----------------------------------------------------------------------------
(* alert.py as a process: main -> analyze_appointments(data_file) *)

\* load_url of alert.py fails: sys.exit(1) before anything else
AlertNoUrl ==
  /\ alerts' = << >>
  /\ launches' = << >>
  /\ launch_results' = << >>
  /\ summary' = << >>
  /\ alert_exit' = 1
  /\ loads' = 0
  /\ warnings' = 0
  /\ UNCHANGED <<eval_window, eval_blacklist>>

\* the data file cannot be loaded: "Error loading data file", return
AlertNoData ==
  /\ alerts' = << >>
  /\ launches' = << >>
  /\ launch_results' = << >>
  /\ summary' = << >>
  /\ alert_exit' = 0
  /\ loads' = 0
  /\ warnings' = 0
  /\ eval_blacklist' = blacklist_file
  /\ UNCHANGED eval_window

\* analyze_appointments on the loaded data
AlertAnalyze(data, viewer) ==
  LET a == AlertsOf(data, blacklist_file, time_window_file)
      n == LoadsOfData(data, blacklist_file)
      v == ViewerRun(LaunchesOf(a), viewer)
  IN /\ alerts' = a
     /\ summary' = SummaryOf(a)
     /\ launches' = v.made
     /\ launch_results' = v.results
     /\ alert_exit' = v.exit
     /\ loads' = n
     /\ warnings' = IF load_time_window(time_window_file).warned THEN n ELSE 0
     /\ eval_window' = time_window_file
     /\ eval_blacklist' = blacklist_file

\* analyze_appointments(data_file) with the files as they are; df is the
\* data file as [exists, data]
analyze_appointments(df, viewer) ==
  /\ prev_alerts' = alerts
  /\ IF ~url_file THEN AlertNoUrl
     ELSE IF ~df.exists THEN AlertNoData
     ELSE AlertAnalyze(df.data, viewer)

----------------------------------------------------------------------------
(* browse.py: test_list_buttons *)

\* test_list_buttons whose load_url prints the error and returns instead of
\* leaving with sys.exit(1)
BrowseStart_IgnoreNoUrl(arg, navigated) ==
  /\ pc = "idle"
  /\ arg_blacklist' = arg
  /\ blacklist' = blacklist_file
  /\ whitelist' = whitelist_file
  /\ IF ~navigated
     THEN /\ pc' = "done"
          /\ outcome' = "goto_exception"
          /\ exit_code' = 1
          /\ UNCHANGED <<screen, town_count>>
     ELSE /\ pc' = "loop"
          /\ outcome' = ""
          /\ exit_code' = -1
          /\ screen' = "selection"
          /\ town_count' = Len(site.towns)
  /\ UNCHANGED <<site, fileVars, i, all_data, location_data, page_no, extractVars,
                 alertVars, evals, edits, passes, next_controls, aborted>>

\* argparse, load_list x 2, load_url, browser launch, page.goto(url),
\* town_buttons.count().  navigated = FALSE: page.goto or a wait raises,
\* outside any try (traceback, exit code 1)
BrowseStart(arg, navigated) ==
  /\ pc = "idle"
  /\ arg_blacklist' = arg
  /\ blacklist' = blacklist_file
  /\ whitelist' = whitelist_file
  /\ IF ~url_file
     THEN /\ pc' = "done"
          /\ outcome' = "no_url"
          /\ exit_code' = 1
          /\ UNCHANGED <<screen, town_count>>
     ELSE IF ~navigated
     THEN /\ pc' = "done"
          /\ outcome' = "goto_exception"
          /\ exit_code' = 1
          /\ UNCHANGED <<screen, town_count>>
     ELSE /\ pc' = "loop"
          /\ outcome' = ""
          /\ exit_code' = -1
          /\ screen' = "selection"
          /\ town_count' = Len(site.towns)
  /\ UNCHANGED <<site, fileVars, i, all_data, location_data, page_no, extractVars,
                 alertVars, evals, edits, passes, next_controls, aborted>>

\* loop body up to the blacklist test: the location is blacklisted, continue
SelectSkip ==
  /\ pc = "loop"
  /\ i <= town_count
  /\ site.towns[i] \in blacklist
  /\ i' = i + 1
  /\ passes' = Append(passes, Pass(i, site.towns[i], FALSE, "none"))
  /\ UNCHANGED <<site, fileVars, pc, outcome, exit_code, arg_blacklist, blacklist, whitelist,
                 town_count, all_data, location_data, page_no, screen, extractVars,
                 alertVars, evals, edits, next_controls, aborted>>

\* a loop body that clicks the town button without the blacklist test
SelectClick_NoBlacklistTest ==
  /\ pc = "loop"
  /\ i <= town_count
  /\ location_data' = [location |-> site.towns[i], pages |-> << >>]
  /\ screen' = "location"
  /\ page_no' = 1
  /\ pc' = "extract"
  /\ passes' = Append(passes, Pass(i, site.towns[i], TRUE, "none"))
  /\ next_controls' = NoControls
  /\ UNCHANGED <<site, fileVars, outcome, exit_code, arg_blacklist, blacklist, whitelist,
                 town_count, i, all_data, extractVars, alertVars, evals, edits, aborted>>

\* loop body up to the first get_page_data: new location_data, click the
\* town button and wait
SelectClick ==
  /\ pc = "loop"
  /\ i <= town_count
  /\ site.towns[i] \notin blacklist
  /\ location_data' = [location |-> site.towns[i], pages |-> << >>]
  /\ screen' = "location"
  /\ page_no' = 1
  /\ pc' = "extract"
  /\ passes' = Append(passes, Pass(i, site.towns[i], TRUE, "none"))
  /\ next_controls' = NoControls
  /\ UNCHANGED <<site, fileVars, outcome, exit_code, arg_blacklist, blacklist, whitelist,
                 town_count, i, all_data, extractVars, alertVars, evals, edits, aborted>>

\* reading the button text, the click or a wait raises: except branch
SelectFail ==
  /\ pc = "loop"
  /\ i <= town_count
  /\ pc' = "error"
  /\ passes' = Append(passes, Pass(i, site.towns[i], FALSE, "select"))
  /\ UNCHANGED <<site, fileVars, outcome, exit_code, arg_blacklist, blacklist, whitelist,
                 town_count, i, all_data, location_data, page_no, screen,
                 extractVars, alertVars, evals, edits, next_controls, aborted>>

\* location_data['pages'].append(get_page_data(page, location))
ExtractPage(transient) ==
  /\ pc = "extract"
  /\ LET r == get_page_data(DomAt(site, location_data.location, page_no),
                            time_window_file, transient)
     IN /\ location_data' = [location_data EXCEPT
                               !.pages = Append(@, [dates |-> r.dates])]
        /\ attempts' = r.attempts
        /\ sleeps' = r.sleeps
        /\ extract_ok' = r.ok
  /\ pc' = "next"
  /\ next_controls' = NoControls
  /\ UNCHANGED <<site, fileVars, outcome, exit_code, arg_blacklist, blacklist, whitelist,
                 town_count, i, all_data, page_no, screen, alertVars, evals, edits, passes, aborted>>

\* page.wait_for_load_state at the top of get_page_data raises (outside the
\* retry loop): except branch of the location
ExtractFail ==
  /\ pc = "extract"
  /\ pc' = "error"
  /\ passes' = Failed(passes, "page")
  /\ UNCHANGED <<site, fileVars, outcome, exit_code, arg_blacklist, blacklist, whitelist,
                 town_count, i, all_data, location_data, page_no, screen,
                 extractVars, alertVars, evals, edits, next_controls, aborted>>

\* a pagination loop that takes a visible form next button for usable
\* without asking whether it is disabled
Advances_IgnoreDisabled(form_visible, form_disabled, pagination_visible) ==
  form_visible \/ pagination_visible

\* the pagination loop clicks a next control: the form next button when it is
\* visible and enabled, else the pagination next control when it is visible
Advances(form_visible, form_disabled, pagination_visible) ==
  /\ form_visible \/ pagination_visible
  /\ (form_visible /\ ~form_disabled) \/ pagination_visible

NextPage(form_visible, form_disabled, pagination_visible) ==
  /\ pc = "next"
  /\ Advances(form_visible, form_disabled, pagination_visible)
  /\ page_no < MaxPages
  /\ page_no' = page_no + 1
  /\ pc' = "extract"
  /\ next_controls' = Seen(form_visible, form_disabled, pagination_visible)
  /\ attempts' = 0
  /\ sleeps' = 0
  /\ extract_ok' = FALSE
  /\ UNCHANGED <<site, fileVars, outcome, exit_code, arg_blacklist, blacklist, whitelist,
                 town_count, i, all_data, location_data, screen, alertVars,
                 evals, edits, passes, aborted>>

\* an except branch that keeps the pages extracted before the pagination
\* loop raised
NextFail_KeepPartial ==
  /\ pc = "next"
  /\ pc' = "error"
  /\ all_data' = [all_data EXCEPT
                    !.locations = DictSet(@, location_data.location, location_data)]
  /\ passes' = Failed(passes, "page")
  /\ attempts' = 0
  /\ sleeps' = 0
  /\ extract_ok' = FALSE
  /\ UNCHANGED <<site, fileVars, outcome, exit_code, arg_blacklist, blacklist, whitelist,
                 town_count, i, location_data, page_no, screen,
                 alertVars, evals, edits, next_controls, aborted>>

\* a visibility query, the click or a wait of the pagination loop raises
NextFail ==
  /\ pc = "next"
  /\ pc' = "error"
  /\ passes' = Failed(passes, "page")
  /\ attempts' = 0
  /\ sleeps' = 0
  /\ extract_ok' = FALSE
  /\ UNCHANGED <<site, fileVars, outcome, exit_code, arg_blacklist, blacklist, whitelist,
                 town_count, i, all_data, location_data, page_no, screen,
                 alertVars, evals, edits, next_controls, aborted>>

\* a loop body that goes on with the next location although the
\* page.goto(url) back to the selection screen raised
StoreLocation_IgnoreReturn(form_visible, form_disabled, pagination_visible, returned) ==
  /\ pc = "next"
  /\ ~Advances(form_visible, form_disabled, pagination_visible)
  /\ all_data' = [all_data EXCEPT
                    !.locations = DictSet(@, location_data.location, location_data)]
  /\ next_controls' = Seen(form_visible, form_disabled, pagination_visible)
  /\ attempts' = 0
  /\ passes' = IF returned THEN passes ELSE Failed(passes, "return")
  /\ sleeps' = 0
  /\ extract_ok' = FALSE
  /\ IF returned
     THEN /\ screen' = "selection"
          /\ page_no' = 0
          /\ i' = i + 1
          /\ pc' = "loop"
     ELSE /\ i' = i + 1
          /\ pc' = "loop"
          /\ UNCHANGED <<screen, page_no>>
  /\ UNCHANGED <<site, fileVars, outcome, exit_code, arg_blacklist, blacklist, whitelist,
                 town_count, location_data, alertVars, evals, edits, aborted>>

\* the pagination loop breaks: store location_data, page.goto(url);
\* returned = FALSE: the goto or a wait raises, except branch
StoreLocation(form_visible, form_disabled, pagination_visible, returned) ==
  /\ pc = "next"
  /\ ~Advances(form_visible, form_disabled, pagination_visible)
  /\ all_data' = [all_data EXCEPT
                    !.locations = DictSet(@, location_data.location, location_data)]
  /\ next_controls' = Seen(form_visible, form_disabled, pagination_visible)
  /\ attempts' = 0
  /\ passes' = IF returned THEN passes ELSE Failed(passes, "return")
  /\ sleeps' = 0
  /\ extract_ok' = FALSE
  /\ IF returned
     THEN /\ screen' = "selection"
          /\ page_no' = 0
          /\ i' = i + 1
          /\ pc' = "loop"
     ELSE /\ pc' = "error"
          /\ UNCHANGED <<screen, page_no, i>>
  /\ UNCHANGED <<site, fileVars, outcome, exit_code, arg_blacklist, blacklist, whitelist,
                 town_count, location_data, alertVars, evals, edits, aborted>>

\* an except branch that goes on with the next location whether or not the
\* page.goto(url) of the recovery raised
Recover_ContinueAfterFailure(recovered) ==
  /\ pc = "error"
  /\ aborted' = ~recovered
  /\ IF recovered
     THEN /\ screen' = "selection"
          /\ page_no' = 0
          /\ i' = i + 1
          /\ pc' = "loop"
     ELSE /\ i' = i + 1
          /\ pc' = "loop"
          /\ UNCHANGED <<screen, page_no>>
  /\ UNCHANGED <<site, fileVars, outcome, exit_code, arg_blacklist, blacklist, whitelist,
                 town_count, all_data, location_data, extractVars, alertVars,
                 evals, edits, passes, next_controls>>

\* an except branch that, after a recovery, makes the pass of the same
\* index again
Recover_RetrySameIndex(recovered) ==
  /\ pc = "error"
  /\ aborted' = ~recovered
  /\ IF recovered
     THEN /\ screen' = "selection"
          /\ page_no' = 0
          /\ i' = i
          /\ pc' = "loop"
     ELSE /\ pc' = "post"
          /\ UNCHANGED <<screen, page_no, i>>
  /\ UNCHANGED <<site, fileVars, outcome, exit_code, arg_blacklist, blacklist, whitelist,
                 town_count, all_data, location_data, extractVars, alertVars,
                 evals, edits, passes, next_controls>>

\* except branch: page.goto(url); recovered = FALSE: it raises, break
Recover(recovered) ==
  /\ pc = "error"
  /\ aborted' = ~recovered
  /\ IF recovered
     THEN /\ screen' = "selection"
          /\ page_no' = 0
          /\ i' = i + 1
          /\ pc' = "loop"
     ELSE /\ pc' = "post"
          /\ UNCHANGED <<screen, page_no, i>>
  /\ UNCHANGED <<site, fileVars, outcome, exit_code, arg_blacklist, blacklist, whitelist,
                 town_count, all_data, location_data, extractVars, alertVars,
                 evals, edits, passes, next_controls>>

\* the for loop is exhausted: browser.close()
LoopEnd ==
  /\ pc = "loop"
  /\ i > town_count
  /\ pc' = "post"
  /\ screen' = "none"
  /\ UNCHANGED <<site, fileVars, outcome, exit_code, arg_blacklist, blacklist, whitelist,
                 town_count, i, all_data, location_data, page_no, extractVars,
                 alertVars, evals, edits, passes, next_controls, aborted>>

\* browse.py returns from test_list_buttons: the loop's locals are gone
\* (all_data and the two lists are kept to relate them to the files)
ProcessExit ==
  /\ town_count' = 0
  /\ i' = 1
  /\ location_data' = NoLocation
  /\ page_no' = 0
  /\ attempts' = 0
  /\ sleeps' = 0
  /\ extract_ok' = FALSE
  /\ next_controls' = NoControls
  /\ aborted' = FALSE
  /\ passes' = << >>

\* a --blacklist that adds the location to the blacklist and leaves it in
\* the whitelist
BlacklistCommand_KeepInWhitelist ==
  /\ pc = "post"
  /\ arg_blacklist # ""
  /\ pc' = "done"
  /\ screen' = "none"
  /\ exit_code' = 0
  /\ IF arg_blacklist \notin whitelist
     THEN /\ outcome' = "not_in_whitelist"
          /\ UNCHANGED <<whitelist, blacklist, whitelist_file, blacklist_file>>
     ELSE /\ outcome' = "blacklisted"
          /\ whitelist' = whitelist
          /\ blacklist' = blacklist \cup {arg_blacklist}
          /\ whitelist_file' = whitelist
          /\ blacklist_file' = blacklist \cup {arg_blacklist}
  /\ ProcessExit
  /\ UNCHANGED <<site, url_file, time_window_file, data_file, arg_blacklist,
                 all_data, alertVars, evals, edits>>

\* --blacklist <location>: move it from the whitelist to the blacklist
BlacklistCommand ==
  /\ pc = "post"
  /\ arg_blacklist # ""
  /\ pc' = "done"
  /\ screen' = "none"
  /\ exit_code' = 0
  /\ IF arg_blacklist \notin whitelist
     THEN /\ outcome' = "not_in_whitelist"
          /\ UNCHANGED <<whitelist, blacklist, whitelist_file, blacklist_file>>
     ELSE /\ outcome' = "blacklisted"
          /\ whitelist' = whitelist \ {arg_blacklist}
          /\ blacklist' = blacklist \cup {arg_blacklist}
          /\ whitelist_file' = whitelist \ {arg_blacklist}
          /\ blacklist_file' = blacklist \cup {arg_blacklist}
  /\ ProcessExit
  /\ UNCHANGED <<site, url_file, time_window_file, data_file, arg_blacklist,
                 all_data, alertVars, evals, edits>>

\* whitelist update, transform_data, snapshot file, alert.py subprocess
Finish(viewer) ==
  /\ pc = "post"
  /\ arg_blacklist = ""
  /\ pc' = "done"
  /\ screen' = "none"
  /\ LET new_locations == (DictKeys(all_data.locations) \ blacklist) \ whitelist
         t == transform_data(all_data)
     IN /\ whitelist' = whitelist \cup new_locations
        /\ whitelist_file' = IF new_locations # {} THEN whitelist \cup new_locations
                             ELSE whitelist_file
        /\ IF t.raised
           THEN /\ outcome' = "transform_exception"
                /\ exit_code' = 1
                /\ UNCHANGED <<data_file, alertVars>>
           ELSE /\ outcome' = "ok"
                /\ exit_code' = 0
                /\ data_file' = [exists |-> TRUE, data |-> t.value]
                /\ analyze_appointments([exists |-> TRUE, data |-> t.value], viewer)
  /\ ProcessExit
  /\ UNCHANGED <<site, url_file, blacklist_file, time_window_file, arg_blacklist,
                 blacklist, all_data, evals, edits>>

----------------------------------------------------------------------------
(* The operator, after the run *)

\* alert.py <data_file>
AlertRun(viewer) ==
  /\ pc = "done"
  /\ evals < MaxEvals
  /\ evals' = evals + 1
  /\ analyze_appointments(data_file, viewer)
  /\ UNCHANGED <<site, fileVars, browseVars, edits>>

\* time_window.json is rewritten (the jq command the alert prints), removed
\* or damaged
EditWindow(wf) ==
  /\ pc = "done"
  /\ edits < MaxEdits
  /\ wf # time_window_file
  /\ time_window_file' = wf
  /\ edits' = edits + 1
  /\ UNCHANGED <<site, url_file, blacklist_file, whitelist_file, data_file,
                 browseVars, alertVars, evals>>

\* echo '<location>' >> blacklist.txt
EditBlacklist(l) ==
  /\ pc = "done"
  /\ edits < MaxEdits
  /\ l \notin blacklist_file
  /\ blacklist_file' = blacklist_file \cup {l}
  /\ edits' = edits + 1
  /\ UNCHANGED <<site, url_file, whitelist_file, time_window_file, data_file,
                 browseVars, alertVars, evals>>

\* rmv_url.txt is removed
RemoveUrl ==
  /\ pc = "done"
  /\ edits < MaxEdits
  /\ url_file
  /\ url_file' = FALSE
  /\ edits' = edits + 1
  /\ UNCHANGED <<site, blacklist_file, whitelist_file, time_window_file, data_file,
                 browseVars, alertVars, evals>>

Next ==
  \/ \E arg \in {"", "A", "B"}, navigated \in BOOLEAN : BrowseStart(arg, navigated)
  \/ SelectSkip
  \/ SelectClick
  \/ SelectFail
  \/ \E transient \in 0..max_retries : ExtractPage(transient)
  \/ ExtractFail
  \/ \E fv, fd, pv \in BOOLEAN : NextPage(fv, fd, pv)
  \/ NextFail
  \/ \E fv, fd, pv, returned \in BOOLEAN : StoreLocation(fv, fd, pv, returned)
  \/ \E recovered \in BOOLEAN : Recover(recovered)
  \/ LoopEnd
  \/ BlacklistCommand
  \/ \E viewer \in Viewers : Finish(viewer)
  \/ \E viewer \in Viewers : AlertRun(viewer)
  \/ \E wf \in EditedWindowFiles : EditWindow(wf)
  \/ \E l \in Locations : EditBlacklist(l)
  \/ RemoveUrl

Spec == Init /\ [][Next]_vars

----------------------------------------------------------------------------
(* Vocabulary of the properties *)

\* a date as the number YYYYMMDD
DateNum(d) == d[1] * 10000 + d[2] * 100 + d[3]

\* time_window.json holds a usable window
WellFormedWindow(wf) ==
  wf.state = "ok" /\ ValidIso(wf.start_date) /\ ValidIso(wf.end_date)

\* start <= d < end of the window in force with time_window.json = wf
InRange(d, wf) ==
  IF WellFormedWindow(wf)
  THEN DateNum(wf.start_date) <= DateNum(d) /\ DateNum(d) < DateNum(wf.end_date)
  ELSE 20250324 <= DateNum(d) /\ DateNum(d) < 20250424

\* the parsable times the raw records of the run hold for location L, date D
ContributedTimes(L, D) ==
  UNION { UNION { UNION {
    { MachineTimeToHHMM(sl.datetime) :
        sl \in {x \in Range(g.times) : x.datetime.attr /\ ValidMachineTime(x.datetime)} }
      : g \in Range(dd.time_groups) }
      : dd \in {x \in Range(pg.dates) :
                  ValidFullDate(x.full_date) /\ FullDateToIso(x.full_date) = D} }
      : pg \in Range(DictGet(all_data.locations, L).pages) }

\* the snapshot of the run as location/date/times triples
SnapshotEntries ==
  UNION { { [location |-> data_file.data[k].key,
             date |-> data_file.data[k].value[j].key,
             times |-> data_file.data[k].value[j].value] :
               j \in 1..Len(data_file.data[k].value) } :
          k \in 1..Len(data_file.data) }

\* the last alert.py evaluated the snapshot (it got past load_url and the
\* data file)
Evaluated == alert_exit = 0 /\ data_file.exists

\* the locations the alert endpoint was launched for, in order
Notified == SelectSeq(launches, LAMBDA l : l.kind = "alert")

----------------------------------------------------------------------------
(* C1 *)

\* C1: for every location L and date D of the snapshot written by the run,
\* the time list under L/D is sorted ascending, has no duplicates and is the
\* set of the parsable times the pages and time groups of L contributed to D.
C1_SortedUnion ==
  data_file.exists =>
    \A e \in SnapshotEntries :
      /\ IsSorted(e.times)
      /\ NoDuplicates(e.times)
      /\ Range(e.times) = ContributedTimes(e.location, e.date)

----------------------------------------------------------------------------
(* C2 *)

\* C2: an evaluation of a snapshot in which every date has an empty time list
\* yields no alert, and every alert of an evaluation has one or more times.
C2_NoAlertWithoutTimes ==
  Evaluated =>
    /\ (\A e \in SnapshotEntries : e.times = << >>) => alerts = << >>
    /\ \A k \in 1..Len(alerts) : alerts[k].times # << >>

----------------------------------------------------------------------------
(* C3 *)

\* C3: no alert, no summary entry and no notification launch of an
\* evaluation is for a location of the blacklist the evaluation loaded.
C3_ExcludedNeverAlerts ==
  Evaluated =>
    /\ \A k \in 1..Len(alerts) : alerts[k].location \notin eval_blacklist
    /\ \A k \in 1..Len(SummaryOf(alerts)) :
         SummaryOf(alerts)[k].location \notin eval_blacklist
    /\ \A k \in 1..Len(Notified) : Notified[k].location \notin eval_blacklist

\* an evaluation met a blacklisted location that has a date with times inside
\* the window, while another location alerted
C3_Witness ==
  /\ Evaluated
  /\ alerts # << >>
  /\ \E e \in SnapshotEntries :
       /\ e.location \in eval_blacklist
       /\ e.times # << >>
       /\ InRange(e.date, eval_window)

----------------------------------------------------------------------------
(* C4 *)

\* C4: in an evaluation with at least one alert, the alert endpoint is
\* launched exactly once for each location that has an alert with one or more
\* times, and for no other location.
C4_NotifyOncePerAlertingLocation ==
  (Evaluated /\ alerts # << >>) =>
    \A l \in Locations :
      Cardinality({k \in 1..Len(Notified) : Notified[k].location = l}) =
        IF \E k \in 1..Len(alerts) :
             alerts[k].location = l /\ alerts[k].times # << >>
        THEN 1 ELSE 0

----------------------------------------------------------------------------
(* C5 *)

\* C5: membership in the time window is inclusive at start and exclusive at
\* end: an evaluation alerts for a date of a location that is not blacklisted
\* exactly when start <= date < end, and the extraction keeps a date column
\* only when start <= date < end; with the window 2025-03-24 .. 2025-04-24,
\* 2025-03-24 and 2025-04-23 are members and 2025-04-24 is not.
C5_WindowHalfOpen ==
  /\ Evaluated =>
       \A e \in SnapshotEntries :
         e.location \notin eval_blacklist =>
           LET alerting == \E k \in 1..Len(alerts) :
                             alerts[k].location = e.location /\ alerts[k].date = e.date
           IN /\ alerting <=> InRange(e.date, eval_window)
              /\ (InRange(<<2025, 3, 24>>, eval_window)
                    /\ ~InRange(<<2025, 3, 23>>, eval_window)
                    /\ InRange(<<2025, 4, 23>>, eval_window)
                    /\ ~InRange(<<2025, 4, 24>>, eval_window)) =>
                   /\ e.date \in {<<2025, 3, 24>>, <<2025, 4, 23>>} => alerting
                   /\ e.date = <<2025, 4, 24>> => ~alerting
  /\ pc \in {"extract", "next"} =>
       \A p \in 1..Len(location_data.pages) :
         \A d \in 1..Len(location_data.pages[p].dates) :
           InRange(FullDateToIso(location_data.pages[p].dates[d].full_date),
                   time_window_file)

\* an evaluation under the window 2025-03-24 .. 2025-04-24 of a snapshot
\* that holds 2025-03-24, 2025-04-23 and 2025-04-24 for one location
C5_Witness ==
  /\ Evaluated
  /\ WellFormedWindow(eval_window)
  /\ eval_window.start_date = <<2025, 3, 24>>
  /\ eval_window.end_date = <<2025, 4, 24>>
  /\ \E l \in Locations \ eval_blacklist :
       \A d \in {<<2025, 3, 24>>, <<2025, 4, 23>>, <<2025, 4, 24>>} :
         \E e \in SnapshotEntries : e.location = l /\ e.date = d

----------------------------------------------------------------------------
(* C6 *)

\* an alert for location/date e is in the list a
AlertsFor(a, location, date) ==
  \E k \in 1..Len(a) : a[k].location = location /\ a[k].date = date

\* C6: when alert.py is run again on the stored snapshot and time_window.json
\* then holds a well-formed window whose end_date is on or before a date
\* that alerted in the evaluation before, the new evaluation has no alert for
\* that date; the run of alert.py leaves the snapshot file as it was.
C6_NarrowedWindow ==
  [][ evals' # evals =>
        /\ data_file' = data_file
        /\ (alert_exit' = 0 /\ WellFormedWindow(time_window_file)) =>
             \A k \in 1..Len(alerts) :
               DateNum(time_window_file.end_date) <= DateNum(alerts[k].date) =>
                 ~AlertsFor(alerts', alerts[k].location, alerts[k].date) ]_vars

\* alert.py was run again after end_date was moved to a date that had
\* alerted with times, for a location that is not blacklisted
C6_Witness ==
  /\ Evaluated
  /\ evals >= 1
  /\ WellFormedWindow(eval_window)
  /\ \E k \in 1..Len(prev_alerts) :
       /\ prev_alerts[k].times # << >>
       /\ prev_alerts[k].location \notin eval_blacklist
       /\ DateNum(eval_window.end_date) <= DateNum(prev_alerts[k].date)
       /\ \E e \in SnapshotEntries :
            e.location = prev_alerts[k].location /\ e.date = prev_alerts[k].date
       /\ ~AlertsFor(alerts, prev_alerts[k].location, prev_alerts[k].date)

----------------------------------------------------------------------------
(* C7 *)

\* the slots the raw records of the run hold
RawSlots ==
  UNION { UNION { UNION { UNION { Range(g.times)
      : g \in Range(dd.time_groups) }
      : dd \in Range(pg.dates) }
      : pg \in Range(all_data.locations[k].value.pages) }
      : k \in 1..Len(all_data.locations) }

\* the run got as far as the normalization
Normalized ==
  pc = "done" /\ outcome \in {"ok", "transform_exception"}

\* C7: a slot whose machine time is malformed or absent is left out of the
\* snapshot and does not abort normalization: the snapshot is produced, it
\* holds every location and date of the raw records, and under each date
\* exactly the parsable times.
C7_UnparsableSkipped ==
  Normalized =>
    /\ outcome = "ok"
    /\ data_file.exists
    /\ DictKeys(data_file.data) = DictKeys(all_data.locations)
    /\ \A e \in SnapshotEntries :
         Range(e.times) = ContributedTimes(e.location, e.date)
    /\ \A k \in 1..Len(all_data.locations) :
         \A pg \in Range(all_data.locations[k].value.pages) :
           \A dd \in Range(pg.dates) :
             \E e \in SnapshotEntries :
               /\ e.location = all_data.locations[k].key
               /\ e.date = FullDateToIso(dd.full_date)

----------------------------------------------------------------------------
(* C8 *)

\* the raw records hold one location with one date with the one slot 09:00
SingleSlotRun ==
  /\ Len(all_data.locations) = 1
  /\ LET dates == DatesOfPages(all_data.locations[1].value.pages)
     IN /\ Len(dates) = 1
        /\ SlotsOf(dates[1]) = <<T(9, 0, "AM")>>

\* C8: when the raw records of a run hold exactly one location with exactly
\* one date (kept by the extraction, so inside the window) with the single
\* time 09:00 and the blacklist is empty, the alert.py the run launches has
\* exactly one alert, for that location and date with [09:00], and launches
\* the alert endpoint exactly once, for that location.
C8_EndToEnd ==
  (pc = "done" /\ outcome = "ok" /\ evals = 0 /\ eval_blacklist = {}
     /\ SingleSlotRun) =>
    LET l == all_data.locations[1].key
        d == DatesOfPages(all_data.locations[1].value.pages)[1]
    IN /\ alert_exit = 0
       /\ alerts = <<[location |-> l,
                      date |-> <<d.full_date[3], MonthNum(d.full_date[1]), d.full_date[2]>>,
                      times |-> <<900>>]>>
       /\ Notified = <<[kind |-> "alert", location |-> l]>>
       /\ Len(launches) = 2
       /\ launches[1].kind = "url"

\* such a run has ended
C8_Witness ==
  /\ pc = "done"
  /\ outcome = "ok"
  /\ evals = 0
  /\ eval_blacklist = {}
  /\ SingleSlotRun
  /\ Len(alerts) = 1

----------------------------------------------------------------------------
(* C9 *)

\* C9: when rmv_url.txt cannot be read, browse.py ends with exit code 1
\* without browser navigation, location visit, snapshot file, alert
\* evaluation or viewer launch, and alert.py ends with exit code 1 without
\* alert evaluation or viewer launch.
C9_NoUrlIsFatal ==
  [][ /\ (pc = "idle" /\ pc' # "idle" /\ ~url_file) =>
           /\ pc' = "done"
           /\ exit_code' = 1
           /\ screen' = "none"
           /\ all_data' = [locations |-> << >>]
           /\ location_data' = NoLocation
           /\ data_file' = data_file
           /\ ~data_file'.exists
           /\ alert_exit' = -1
           /\ launches' = << >>
      /\ (evals' # evals /\ ~url_file) =>
           /\ alert_exit' = 1
           /\ alerts' = << >>
           /\ launches' = << >>
           /\ loads' = 0
           /\ data_file' = data_file ]_vars

\* browse.py and then alert.py were started without rmv_url.txt
C9_Witness ==
  /\ ~url_file
  /\ pc = "done"
  /\ outcome = "no_url"
  /\ exit_code = 1
  /\ evals >= 1
  /\ alert_exit = 1

----------------------------------------------------------------------------
(* C10 *)

\* C10: when time_window.json is missing or corrupt, alert.py still
\* evaluates the snapshot, membership is decided against 2025-03-24
\* (inclusive) .. 2025-04-24 (exclusive), and every load of the window prints
\* the warning; the extraction of browse.py keeps exactly the columns of
\* that range.
C10_WindowFallback ==
  /\ (Evaluated /\ ~WellFormedWindow(eval_window)) =>
       /\ warnings = loads
       /\ \A e \in SnapshotEntries :
            e.location \notin eval_blacklist =>
              (AlertsFor(alerts, e.location, e.date) <=>
                 (20250324 <= DateNum(e.date) /\ DateNum(e.date) < 20250424))
  /\ (pc \in {"extract", "next"} /\ ~WellFormedWindow(time_window_file)) =>
       \A pg \in Range(location_data.pages) :
         \A dd \in Range(pg.dates) :
           LET n == dd.full_date[3] * 10000 + MonthNum(dd.full_date[1]) * 100
                      + dd.full_date[2]
           IN 20250324 <= n /\ n < 20250424

\* an evaluation under a missing or corrupt time_window.json that loaded the
\* window and alerted, over a snapshot with a date outside the default range
C10_Witness ==
  /\ Evaluated
  /\ ~WellFormedWindow(eval_window)
  /\ loads > 0
  /\ warnings > 0
  /\ alerts # << >>
  /\ \E e \in SnapshotEntries :
       /\ e.location \notin eval_blacklist
       /\ ~AlertsFor(alerts, e.location, e.date)

----------------------------------------------------------------------------
(* C11 *)

\* C11: a viewer launch that fails (firefox missing, or exiting non-zero) is
\* caught and printed and never ends alert.py: an evaluation that found
\* alerts exits 0, and when one of its alerts has times the target url was
\* launched first, the alert endpoint was launched exactly once for every
\* location that has an alert with times, and every launch has its outcome,
\* whatever the launches before it did.
C11_LaunchFailureNotFatal ==
  /\ alert_exit = 1 => (alerts = << >> /\ launches = << >>)
  /\ alerts # << >> => alert_exit = 0
  /\ (\E a \in Range(alerts) : a.times # << >>) =>
       /\ launches # << >>
       /\ launches[1].kind = "url"
       /\ \A a \in {x \in Range(alerts) : x.times # << >>} :
            Cardinality({k \in 1..Len(launches) :
                           /\ launches[k].kind = "alert"
                           /\ launches[k].location = a.location}) = 1
       /\ Len(launch_results) = Len(launches)
       /\ \A k \in 1..Len(launches) :
            launch_results[k] \in {"ok", "CalledProcessError", "FileNotFoundError"}

\* an evaluation whose launch for the first alerting location exited
\* non-zero and whose launch for the second location was still made
C11_Witness ==
  /\ alert_exit = 0
  /\ Len(launches) = 3
  /\ launches[3].kind = "alert"
  /\ launch_results[2] = "CalledProcessError"
  /\ launch_results[3] = "ok"

----------------------------------------------------------------------------
(* C12 *)

\* the record get_page_data appended for the page on display
LastPage == location_data.pages[Len(location_data.pages)]

\* the columns of a page that have a date inside the window
WindowColumns(dom, wf) ==
  {c \in Range(dom) : /\ c.label_match
                      /\ ValidFullDate(c.full_date)
                      /\ InRange(FullDateToIso(c.full_date), wf)}

\* C12: when the extraction of a page succeeds, the record of every column
\* whose date is inside the window holds every slot of every time group of
\* that column, also when the column has two or more groups.
C12_EveryGroupRecorded ==
  (pc = "next" /\ extract_ok) =>
    \A c \in WindowColumns(DomAt(site, location_data.location, page_no),
                           time_window_file) :
      \A g \in Range(c.groups) :
        \A sl \in Range(g.times) :
          \E dd \in Range(LastPage.dates) :
            /\ dd.full_date = c.full_date
            /\ \E rg \in Range(dd.time_groups) : sl \in Range(rg.times)

----------------------------------------------------------------------------
(* C13 *)

\* C13: get_page_data makes at least one and at most 3 attempts for a page;
\* every failed attempt but a failed third one is followed by one backoff
\* sleep, so the sleeps are one less than the attempts and a success is the
\* last attempt; when the call did not succeed all 3 attempts were made, the
\* call still returned a record (with no dates), the record was appended to
\* the location's pages and the traversal is at the pagination loop.
C13_BoundedRetries ==
  pc = "next" =>
    /\ 1 <= attempts /\ attempts <= 3
    /\ sleeps = attempts - 1
    /\ Len(location_data.pages) = page_no
    /\ ~extract_ok => (attempts = 3 /\ LastPage.dates = << >>)

\* the extraction of a second page failed three times and the traversal
\* went on to the pagination loop with the partial record
C13_Witness ==
  /\ pc = "next"
  /\ page_no = 2
  /\ ~extract_ok
  /\ attempts = 3
  /\ sleeps = 2
  /\ LastPage.dates = << >>
  /\ location_data.pages[1].dates # << >>

----------------------------------------------------------------------------
(* C14 *)

\* the pagination loop of the location has ended with the latest pass
LocationEnded ==
  /\ next_controls.seen
  /\ next_controls.clicked = "none"
  /\ pc \in {"loop", "error"}

\* the latest pass of the pagination loop went on to a further page
Advanced ==
  /\ next_controls.seen
  /\ pc = "extract"
  /\ page_no > 1

\* C14 as stated: the pagination loop of a location has ended only when
\* neither the form next button nor the pagination next control was
\* visible.
C14_EndsOnlyWhenBothAbsent ==
  LocationEnded =>
    (~next_controls.form_visible /\ ~next_controls.pagination_visible)

\* C14 amended: the pagination loop of a location ends exactly when no next
\* control is usable, that is the pagination next control is not visible and
\* the form next button is not visible or is visible but disabled; otherwise
\* the loop clicks the form next button when it is visible and enabled, else
\* the pagination next control, and goes on to a further page.
C14_EndsWhenNoUsableControl ==
  /\ LocationEnded =>
       /\ ~next_controls.pagination_visible
       /\ ~next_controls.form_visible \/ next_controls.form_disabled
  /\ Advanced =>
       /\ next_controls.clicked =
            (IF next_controls.form_visible /\ ~next_controls.form_disabled
             THEN "form_next" ELSE "pagination_next")
       /\ next_controls.clicked = "pagination_next" =>
            next_controls.pagination_visible
       /\ Len(location_data.pages) = page_no - 1
  /\ (next_controls.seen /\ pc \in {"loop", "error", "extract"}) =>
       (next_controls.clicked = "none" <=>
          /\ ~next_controls.pagination_visible
          /\ ~next_controls.form_visible \/ next_controls.form_disabled)

\* a location whose pagination ended on a visible but disabled form next
\* button was stored, and the traversal went back to the selection screen
C14_Witness ==
  /\ LocationEnded
  /\ pc = "loop"
  /\ next_controls.form_visible
  /\ next_controls.form_disabled
  /\ DictHas(all_data.locations, location_data.location)
  /\ Len(location_data.pages) = 2

----------------------------------------------------------------------------
(* C15 *)

\* C15: the except branch of a location makes one recovery attempt: the step
\* out of the error state either is back on the selection screen and goes on
\* with the next location, or has failed and leaves the loop; it is never a
\* second attempt.  Once a recovery has failed the run is past the loop: no
\* location is selected, no button is clicked, no page is extracted and the
\* raw records stay as they are.
C15_OneRecoveryAttempt ==
  [][ /\ pc = "error" =>
           \/ /\ pc' = "loop"
              /\ ~aborted'
              /\ screen' = "selection"
              /\ i' = i + 1
              /\ town_count' = town_count
           \/ /\ pc' = "post"
              /\ aborted'
      /\ aborted =>
           /\ pc = "post"
           /\ pc' = "done"
           /\ screen' # "location"
           /\ all_data' = all_data
           /\ location_data' = NoLocation
    ]_vars

\* the first of two locations failed and was recovered from, the second one
\* failed as well and its recovery failed
C15_Witness ==
  /\ aborted
  /\ pc = "post"
  /\ blacklist = {}
  /\ town_count = 2
  /\ i = 2
  /\ all_data.locations = << >>

----------------------------------------------------------------------------
(* C16 *)

\* C16: after a failed recovery the run ends with a non-zero exit code and
\* without post-processing: the whitelist file and the snapshot file are
\* left as they were and alert.py is not run (no evaluation, no launch).
C16_FailedRecoveryIsFatal ==
  [][ aborted =>
        /\ pc' = "done"
        /\ exit_code' \notin {-1, 0}
        /\ whitelist_file' = whitelist_file
        /\ data_file' = data_file
        /\ UNCHANGED alertVars
    ]_vars

----------------------------------------------------------------------------
(* C17 *)

\* C17: a location of the blacklist the run loaded at its start is never
\* visited by the run: it is never the location whose button was clicked
\* and whose pages are extracted, it is never a key of the raw records, and
\* it is never a key of the snapshot the run writes.
C17_ExcludedNeverVisited ==
  /\ location_data.location \notin blacklist
  /\ screen = "location" => location_data.location \in Range(site.towns) \ blacklist
  /\ pc \in {"loop", "extract", "next", "error", "post"} =>
       DictKeys(all_data.locations) \cap blacklist = {}
  /\ (pc = "done" /\ outcome = "ok") =>
       DictKeys(data_file.data) \cap blacklist = {}

\* a run over a site that lists a blacklisted location wrote a snapshot
\* with another location
C17_Witness ==
  /\ pc = "done"
  /\ outcome = "ok"
  /\ blacklist # {}
  /\ blacklist \subseteq Range(site.towns)
  /\ DictKeys(data_file.data) # {}

----------------------------------------------------------------------------
(* C18 *)

\* C18: whenever the location loop is about to select a location the browser
\* is on the selection screen: the loop is entered from the first navigation
\* and re-entered only after a navigation back that succeeded, whether the
\* location before was completed, skipped or failed; the click that selects
\* a location is made on the selection screen.
C18_SelectOnSelectionScreen ==
  [][ /\ pc = "loop" => screen = "selection"
      /\ pc' = "loop" => screen' = "selection"
      /\ (screen # "location" /\ screen' = "location") =>
           /\ pc = "loop"
           /\ screen = "selection"
           /\ pc' = "extract"
    ]_vars

\* the first location was completed and stored, and the second location
\* has been selected
C18_Witness ==
  /\ pc = "extract"
  /\ screen = "location"
  /\ i = 2
  /\ DictHas(all_data.locations, site.towns[1])
  /\ location_data.location = site.towns[2]

----------------------------------------------------------------------------
(* C19 *)

\* C19 in its safety form: the pagination loop never clicks a next control
\* on the last result page of a location, so a location with n pages is
\* left after at most n - 1 advances.
C19_NoAdvanceOnLastPage ==
  [][ (pc = "next" /\ pc' = "extract") =>
        page_no < Len(site.pages[location_data.location])
    ]_vars

----------------------------------------------------------------------------
(* C20 *)

\* the date entry d of location l in the snapshot qualifies in the last
\* evaluation: the location is not excluded, the date is inside the window
\* and has one or more times
Qualifies(l, d) ==
  /\ l \notin eval_blacklist
  /\ ValidIso(d.key)
  /\ InRange(d.key, eval_window)
  /\ d.value # << >>

\* C20: the summary of an evaluation has at most one entry per location; the
\* entry of a location is the first date of that location, in snapshot
\* order, that qualifies; every qualifying date of the snapshot is in the
\* alert list.
C20_SummaryFirstQualifying ==
  Evaluated =>
    /\ \A l \in Locations :
         Cardinality({k \in 1..Len(summary) : summary[k].location = l}) <= 1
    /\ \A k \in 1..Len(summary) :
         LET dates == DictGet(data_file.data, summary[k].location)
         IN \E j \in 1..Len(dates) :
              /\ Qualifies(summary[k].location, dates[j])
              /\ dates[j].key = summary[k].date
              /\ \A m \in 1..(j - 1) : ~Qualifies(summary[k].location, dates[m])
    /\ \A e \in SnapshotEntries :
         Qualifies(e.location, [key |-> e.date, value |-> e.times]) =>
           AlertsFor(alerts, e.location, e.date)

----------------------------------------------------------------------------
(* C21 *)

\* C21: every slot the record of a page holds under a date was rendered in
\* a time group of the column of that date on that page; when the
\* extraction of the page succeeds, a column inside the window that has no
\* time group has a record without any slot.
C21_TimesFromOwnColumn ==
  pc = "next" =>
    LET dom == DomAt(site, location_data.location, page_no)
    IN /\ \A dd \in Range(LastPage.dates) :
            \A rg \in Range(dd.time_groups) :
              \A sl \in Range(rg.times) :
                \E c \in Range(dom) :
                  /\ c.label_match
                  /\ c.full_date = dd.full_date
                  /\ \E g \in Range(c.groups) : sl \in Range(g.times)
       /\ extract_ok =>
            \A c \in WindowColumns(dom, time_window_file) :
              c.groups = << >> =>
                \E dd \in Range(LastPage.dates) :
                  /\ dd.full_date = c.full_date
                  /\ \A rg \in Range(dd.time_groups) : rg.times = << >>

----------------------------------------------------------------------------
(* C22 *)

\* the loop is between two passes, or past its last pass
BetweenPasses == pc \in {"loop", "post"}

\* the pass of location l clicked its button and raised nothing
CompletedCleanly(l) ==
  \E k \in 1..Len(passes) :
    /\ passes[k].location = l
    /\ passes[k].clicked
    /\ passes[k].error = "none"

\* the pass of location l got through its first page and its pagination
PagesCompleted(l) ==
  \E k \in 1..Len(passes) :
    /\ passes[k].location = l
    /\ passes[k].clicked
    /\ passes[k].error \in {"none", "return"}

----------------------------------------------------------------------------
(* C23 *)

\* C23: while no recovery has failed, the passes of the location loop are
\* the indices 1, 2, ... in ascending order, one pass per index, each for
\* the location the site lists at that index: when the loop is between two
\* passes the indices below i have had their pass, and inside a pass the
\* index i is the last one.  A location of the blacklist is never clicked,
\* every other location is clicked in its pass unless the pass raised before
\* or in the click, and no location has two passes, also after a pass that
\* failed and was recovered from.
C23_EachIndexOnce ==
  (pc \in {"loop", "extract", "next", "error", "post"} /\ ~aborted) =>
    /\ Len(passes) = (IF pc \in {"loop", "post"} THEN i - 1 ELSE i)
    /\ pc = "post" => Len(passes) = town_count
    /\ \A k \in 1..Len(passes) :
         /\ passes[k].index = k
         /\ passes[k].location = site.towns[k]
         /\ passes[k].location \in blacklist => ~passes[k].clicked
         /\ passes[k].location \notin blacklist =>
              (passes[k].clicked \/ passes[k].error = "select")
         /\ \A j \in 1..Len(passes) :
              passes[j].location = passes[k].location => j = k

\* the pass of the first location failed and was recovered from, the second
\* location was clicked and the loop has ended
C23_Witness ==
  /\ pc = "post"
  /\ ~aborted
  /\ Len(passes) = 2
  /\ passes[1].error # "none"
  /\ passes[2].clicked
  /\ passes[2].error = "none"

----------------------------------------------------------------------------
(* C24 *)

\* C24: a step of a run of browse.py that starts with the blacklist file
\* and the whitelist file disjoint leaves them disjoint.  Only the end of
\* the run writes the lists: without --blacklist the blacklist file is
\* left alone and the whitelist file gains only locations that were in
\* neither list; --blacklist with a location of the whitelist moves it to
\* the blacklist; --blacklist with any other location changes neither list.
C24_ListsStayDisjoint ==
  [][ (pc # "done" /\ blacklist_file \cap whitelist_file = {}) =>
        /\ blacklist_file' \cap whitelist_file' = {}
        /\ pc # "post" =>
             (blacklist_file' = blacklist_file /\ whitelist_file' = whitelist_file)
        /\ (pc = "post" /\ arg_blacklist = "") =>
             /\ blacklist_file' = blacklist_file
             /\ whitelist_file \subseteq whitelist_file'
             /\ (whitelist_file' \ whitelist_file) \cap blacklist_file = {}
        /\ (pc = "post" /\ arg_blacklist # "" /\ arg_blacklist \in whitelist_file) =>
             /\ whitelist_file' = whitelist_file \ {arg_blacklist}
             /\ blacklist_file' = blacklist_file \cup {arg_blacklist}
        /\ (pc = "post" /\ arg_blacklist # "" /\ arg_blacklist \notin whitelist_file) =>
             (blacklist_file' = blacklist_file /\ whitelist_file' = whitelist_file)
    ]_vars

\* a run with --blacklist has moved a location of the whitelist to the
\* blacklist
C24_Witness ==
  /\ pc = "done"
  /\ outcome = "blacklisted"
  /\ edits = 0
  /\ arg_blacklist \in blacklist_file
  /\ arg_blacklist \notin whitelist_file
  /\ blacklist_file \cap whitelist_file = {}

====
